---- MODULE Spec2Model ----
\* Resilient remote-tool-access layer of react_agent/tools.py:
\* health tracker, circuit breaker, retrying connector, tool registry cache,
\* invocation guard and the Twitter operations built on them.
\* One caller at a time drives get_tools (directly, through the status
\* operation, or through a Twitter operation); SpecConc lets two tasks run
\* get_tools concurrently. Time is counted in whole time-units (seconds in
\* the source).
EXTENDS Integers, Sequences, FiniteSets, TLC

\* ---------------------------------------------------------------- constants
CACHE_DURATION == 300
MAX_RETRIES == 3
BASE_RETRY_DELAY == 1
MAX_RETRY_DELAY == 8
MCP_CONNECTION_TIMEOUT == 20
CIRCUIT_BREAKER_THRESHOLD == 3
CIRCUIT_BREAKER_TIMEOUT == 300
GLOBAL_TIMEOUT == 15
TOOL_EXECUTION_TIMEOUT == 30
\* "for attempt in range(2)" and "await asyncio.sleep(1)" of post_tweet
POST_ATTEMPTS == 2
POST_RETRY_SLEEP == 1

\* Python's None for a timestamp (time.time() is always positive).
None == -1

\* ------------------------------------------------------------------- bounds
MaxTime == 500
MaxOk == 2
MaxHang == 1
MaxOps == 4
MaxFacadeTime == 60
MaxConcCalls == 3
StartTime == 1

\* Idle periods between two durations of one connection attempt, and
\* the tool lists a provider may enumerate.
IdleJumps == {150, 301}
AttemptDurations == {0}
ToolOffers == {{}, {"post_tweet", "search_x"}}
Faults == {"timeout", "http", "other"}

\* The connector's three exception handlers differ only in what they report
\* to monitoring. SpecMonitor draws the fault of an attempt from all of
\* Faults; the other specifications draw it from the kinds whose handlers
\* treat the tables alike.
ConnectFaults == {"timeout", "http"}
StarveJumps == {100}
\* how long the first provider takes to answer, when it answers: at once,
\* so late that the backoff sleep after it ends just as the whole-refresh
\* timeout expires, just as that timeout expires, or just as the attempt's
\* own timeout expires
StarveDurations ==
  {0, GLOBAL_TIMEOUT - BASE_RETRY_DELAY, GLOBAL_TIMEOUT, MCP_CONNECTION_TIMEOUT}
SecondOffer == {"retweet"}
MonitorJumps == {100}

\* what the providers may enumerate while the Twitter operations are
\* exercised, the pauses between two operations, and what a provider tool
\* may hand back
FacadeOffers == {{}, {"post_tweet", "delete_tweet", "like_tweet", "retweet",
                      "advanced_search_twitter", "get_trends",
                      "get_tweets_by_IDs", "get_tweet_replies",
                      "get_tweet_quotations", "get_tweet_thread_context",
                      "search_x"}}
FacadeJumps == {40}
ConcOffers == [twitter |-> {{"post_tweet", "search_x"}},
               remote_server |-> {{"retweet"}}]
Tasks == {1, 2}
ToolResults == {[status |-> "success", error |-> "none"],
                [status |-> "rejected", error |-> "duplicate"]}

\* configured providers, in configured order
servers == <<"twitter", "remote_server">>
ServerNames == {servers[i] : i \in 1..Len(servers)}

required_tools ==
  {"post_tweet", "delete_tweet", "like_tweet", "retweet",
   "advanced_search_twitter", "get_trends", "get_tweets_by_IDs",
   "get_tweet_replies", "get_tweet_quotations", "get_tweet_thread_context"}

\* ------------------------------------------------------------ dict helpers
EmptyDict == <<>>
Put(f, k, v) == [x \in (DOMAIN f) \cup {k} |-> IF x = k THEN v ELSE f[x]]
Del(f, k) == [x \in (DOMAIN f) \ {k} |-> f[x]]
\* variant: a name already in the accumulator keeps its handle
Merge_keep(d1, d2) == [x \in (DOMAIN d1) \cup (DOMAIN d2) |->
                         IF x \in DOMAIN d1 THEN d1[x] ELSE d2[x]]

\* d1.update(d2)
Merge(d1, d2) == [x \in (DOMAIN d1) \cup (DOMAIN d2) |->
                    IF x \in DOMAIN d2 THEN d2[x] ELSE d1[x]]

\* Optional[dict]: the cache is None or a mapping tool name -> handle
NoCache == [none |-> TRUE]
Cached(m) == [none |-> FALSE, map |-> m]

\* the value handed back by a call: a mapping, or a raised fault
NoRet == [kind |-> "none"]
Value(m) == [kind |-> "value", map |-> m]
Raised == [kind |-> "raised"]

VARIABLES
  now,                \* time.time()
  mcp_tools_cache,    \* _mcp_tools_cache
  cache_timestamp,    \* _cache_timestamp
  connection_health,  \* _connection_health
  circuit_breaker,    \* _circuit_breaker
  pc,                 \* position of the caller: idle, connect, sleep,
                      \* op_sleep, invoke, returned
  caller,             \* which operation is running get_tools
  current_time,       \* current_time captured at the start of the refresh
  srv,                \* index of the provider being connected
  attempt,            \* attempt number of the retry loop, 0-based
  op_attempt,         \* attempt number of post_tweet's loop, 0-based
  tools_dict,         \* accumulator of the refresh
  ret,                \* what _get_all_mcp_tools handed to its caller
  via,                \* how the call ended: cache, refresh, timeout
  result,             \* the facade operation's structured result
  oks,                \* number of successful connections so far
  hangs,              \* number of cancelled refreshes so far
  ops,                \* number of direct health-tracker operations so far
  tasks,              \* per concurrent task: its position in get_tools and
                      \* the locals of its refresh
  metrics,            \* monitoring's table of connection attempts per provider
  overdue,            \* the timer of wait_for(..., timeout=15.0) fired in the
                      \* loop pass in which an attempt was answered: the
                      \* cancellation was absorbed and the refresh runs on
  hist                \* observations of the current call and of the past

vars == <<now, mcp_tools_cache, cache_timestamp, connection_health,
          circuit_breaker, pc, caller, current_time, srv, attempt,
          op_attempt, tools_dict, ret, via, result, oks, hangs, ops, tasks,
          metrics, overdue, hist>>

\* ------------------------------------------------------------ health tracker
NewHealth ==
  [success_count |-> 0, failure_count |-> 0,
   last_success |-> None, last_failure |-> None]

NewBreaker == [failure_count |-> 0, last_failure |-> None, is_open |-> FALSE]

\* variant: the breaker opens only when the streak exceeds the threshold
update_circuit_breaker_late(cb, s, t) ==
  LET cb1 == IF s \in DOMAIN cb THEN cb ELSE Put(cb, s, NewBreaker)
      n == cb1[s].failure_count + 1
  IN [cb1 EXCEPT ![s] =
        [failure_count |-> n,
         last_failure |-> t,
         is_open |-> IF n > CIRCUIT_BREAKER_THRESHOLD THEN TRUE ELSE @.is_open]]

\* variant: the breaker opens one failure before the threshold
update_circuit_breaker_early(cb, s, t) ==
  LET cb1 == IF s \in DOMAIN cb THEN cb ELSE Put(cb, s, NewBreaker)
      n == cb1[s].failure_count + 1
  IN [cb1 EXCEPT ![s] =
        [failure_count |-> n,
         last_failure |-> t,
         is_open |-> IF n + 1 >= CIRCUIT_BREAKER_THRESHOLD THEN TRUE
                                                           ELSE @.is_open]]

\* _update_circuit_breaker(server_name) at time t
update_circuit_breaker(cb, s, t) ==
  LET cb1 == IF s \in DOMAIN cb THEN cb ELSE Put(cb, s, NewBreaker)
      n == cb1[s].failure_count + 1
  IN [cb1 EXCEPT ![s] =
        [failure_count |-> n,
         last_failure |-> t,
         is_open |-> IF n >= CIRCUIT_BREAKER_THRESHOLD THEN TRUE ELSE @.is_open]]

\* variant: a success closes the breaker but keeps its record and streak
update_connection_health_keep(health, cb, s, success, t) ==
  LET h1 == IF s \in DOMAIN health THEN health ELSE Put(health, s, NewHealth)
  IN IF success
       THEN [health |-> [h1 EXCEPT ![s].success_count = @ + 1,
                                   ![s].last_success = t],
             breaker |-> IF s \in DOMAIN cb
                           THEN [cb EXCEPT ![s].is_open = FALSE] ELSE cb]
       ELSE [health |-> [h1 EXCEPT ![s].failure_count = @ + 1,
                                   ![s].last_failure = t],
             breaker |-> update_circuit_breaker(cb, s, t)]

\* variant: a success zeroes the breaker record instead of deleting it
update_connection_health_zero(health, cb, s, success, t) ==
  LET h1 == IF s \in DOMAIN health THEN health ELSE Put(health, s, NewHealth)
  IN IF success
       THEN [health |-> [h1 EXCEPT ![s].success_count = @ + 1,
                                   ![s].last_success = t],
             breaker |-> IF s \in DOMAIN cb
                           THEN [cb EXCEPT ![s] = NewBreaker] ELSE cb]
       ELSE [health |-> [h1 EXCEPT ![s].failure_count = @ + 1,
                                   ![s].last_failure = t],
             breaker |-> update_circuit_breaker(cb, s, t)]

\* variant: a failure is counted but its time is not stamped
update_connection_health_unstamped(health, cb, s, success, t) ==
  LET h1 == IF s \in DOMAIN health THEN health ELSE Put(health, s, NewHealth)
  IN IF success
       THEN [health |-> [h1 EXCEPT ![s].success_count = @ + 1,
                                   ![s].last_success = t],
             breaker |-> IF s \in DOMAIN cb THEN Del(cb, s) ELSE cb]
       ELSE [health |-> [h1 EXCEPT ![s].failure_count = @ + 1],
             breaker |-> update_circuit_breaker(cb, s, t)]

\* _update_connection_health(server_name, success) at time t;
\* yields the new health table and the new breaker table
update_connection_health(health, cb, s, success, t) ==
  LET h1 == IF s \in DOMAIN health THEN health ELSE Put(health, s, NewHealth)
  IN IF success
       THEN [health |-> [h1 EXCEPT ![s].success_count = @ + 1,
                                   ![s].last_success = t],
             breaker |-> IF s \in DOMAIN cb THEN Del(cb, s) ELSE cb]
       ELSE [health |-> [h1 EXCEPT ![s].failure_count = @ + 1,
                                   ![s].last_failure = t],
             breaker |-> update_circuit_breaker(cb, s, t)]

\* _is_circuit_breaker_open(server_name) at time t: the answer and the
\* breaker table after the (side-effecting) query
is_circuit_breaker_open(cb, s, t) ==
  IF s \notin DOMAIN cb THEN [open |-> FALSE, breaker |-> cb]
  ELSE IF ~cb[s].is_open THEN [open |-> FALSE, breaker |-> cb]
  ELSE IF /\ cb[s].last_failure # None
          /\ cb[s].last_failure # 0
          /\ (t - cb[s].last_failure) > CIRCUIT_BREAKER_TIMEOUT
       THEN [open |-> FALSE,
             breaker |-> [cb EXCEPT ![s].is_open = FALSE,
                                    ![s].failure_count = 0]]
  ELSE [open |-> TRUE, breaker |-> cb]

\* ------------------------------------------------- observations (history)
\* hist records what happened, for stating properties; it never influences
\* the program's variables.
\*   pre        tables as the call found them
\*   skipped    providers skipped in this call because their breaker was open
\*   exhausted  providers whose connector used up all attempts in this call
\*   connected  providers whose connector succeeded in this call
\*   started    number of connection attempts started per provider in this call
\*   queried    per provider, the last breaker query of this call
\*   fresh      the filtered result of this call's refresh, once complete
\*   slept      per provider, the backoff delays slept in this call, in order
\*   okAt       per provider, the attempt number that succeeded in this call
\*   offered    per provider, the tool names it enumerated in this call
\*   fails      failures recorded in a row (no success, no cool-down expiry)
\*   lastFail   time of the last recorded failure
\*   openedAt   time of the failure that opened the breaker
\*   connFails  failed connector outcomes in a row
\*   log        what the running operation did so far, in order: fetch (a
\*              call of get_tools), present / absent (the lookup of its
\*              tool), invalidate (the cache set to None), invoke (a tool
\*              invocation begun) and how the invocation ended
\*   guardIn    the outcome of the last call wrapped by the invocation guard
\*   guardOut   what the guard handed back for it
\*   results    the filtered results of the refreshes completed by the
\*              concurrent tasks
\*   ungated    providers to which an attempt was started while their
\*              breaker was open
\*   snap       the health table as it was when the last operation
\*              returned, if that operation hands the table out
\*   dropped    the cache the running status query found and set to None
\*   lastOffer  per provider, the tool names it enumerated in its most
\*              recent successful connection
\*   answered   providers of which some connection attempt ever got an
\*              answer (tools or a fault) before its own timeout
NoPre == [none |-> TRUE]

NewCallHist(h, c, ts, health, cb) ==
  [h EXCEPT !.log = Append(@, "fetch"),
            !.pre = [none |-> FALSE, cache |-> c, ts |-> ts,
                     health |-> health, breaker |-> cb],
            !.skipped = {}, !.exhausted = {}, !.connected = {},
            !.started = [s \in ServerNames |-> 0],
            !.queried = EmptyDict, !.fresh = NoRet,
            !.slept = [s \in ServerNames |-> <<>>],
            !.okAt = [s \in ServerNames |-> 0],
            !.offered = [s \in ServerNames |-> {}]]

ClearCallHist(h) ==
  [h EXCEPT !.log = <<>>, !.guardIn = [kind |-> "none"],
            !.guardOut = [status |-> "none"],
            !.pre = NoPre, !.skipped = {}, !.exhausted = {},
            !.connected = {}, !.started = [s \in ServerNames |-> 0],
            !.queried = EmptyDict, !.fresh = NoRet,
            !.slept = [s \in ServerNames |-> <<>>],
            !.okAt = [s \in ServerNames |-> 0],
            !.offered = [s \in ServerNames |-> {}]]

NoSnap == [none |-> TRUE]

InitHist ==
  [pre |-> NoPre, skipped |-> {}, exhausted |-> {}, connected |-> {},
   started |-> [s \in ServerNames |-> 0],
   queried |-> EmptyDict,
   fresh |-> NoRet,
   slept |-> [s \in ServerNames |-> <<>>],
   okAt |-> [s \in ServerNames |-> 0],
   offered |-> [s \in ServerNames |-> {}],
   fails |-> [s \in ServerNames |-> 0],
   lastFail |-> [s \in ServerNames |-> None],
   openedAt |-> [s \in ServerNames |-> None],
   connFails |-> [s \in ServerNames |-> 0],
   log |-> <<>>,
   guardIn |-> [kind |-> "none"],
   guardOut |-> [status |-> "none"],
   results |-> {},
   ungated |-> {},
   snap |-> NoSnap,
   dropped |-> NoCache,
   answered |-> {},
   lastOffer |-> [s \in ServerNames |-> {}]]

\* an operation begins
NewOpHist(h) ==
  [h EXCEPT !.log = <<>>, !.guardIn = [kind |-> "none"],
            !.guardOut = [status |-> "none"]]

\* time has reached t: a run of failures whose last one is more than the
\* cool-down ago is over
Elapse(h, t) ==
  [h EXCEPT !.fails = [s \in ServerNames |->
       IF h.lastFail[s] # None /\ t - h.lastFail[s] > CIRCUIT_BREAKER_TIMEOUT
         THEN 0 ELSE h.fails[s]]]

\* an attempt to provider s starts at time t
AttemptStart(h, cb, s, t) ==
  IF is_circuit_breaker_open(cb, s, t).open
    THEN [h EXCEPT !.ungated = @ \cup {s}] ELSE h

FlagOpen(cb, s) == s \in DOMAIN cb /\ cb[s].is_open

\* a world is the pair of tables plus the observations, threaded through the
\* synchronous code of one step; next is the provider the step suspends on
\* (0: none)
World(health, cb, h) == [health |-> health, breaker |-> cb, h |-> h, next |-> 0]

\* _update_connection_health, observed
Record(W, s, success, t) ==
  LET u == update_connection_health(W.health, W.breaker, s, success, t)
      opens == ~FlagOpen(W.breaker, s) /\ FlagOpen(u.breaker, s)
  IN [W EXCEPT
        !.health = u.health,
        !.breaker = u.breaker,
        !.h.fails[s] = IF success THEN 0 ELSE @ + 1,
        !.h.lastFail[s] = IF success THEN None ELSE t,
        !.h.openedAt[s] = IF success THEN None ELSE IF opens THEN t ELSE @]

\* _is_circuit_breaker_open, observed
Query(W, s, t) ==
  LET q == is_circuit_breaker_open(W.breaker, s, t)
      since == IF W.h.openedAt[s] = None THEN None ELSE t - W.h.openedAt[s]
  IN [W EXCEPT
        !.breaker = q.breaker,
        !.h.queried = Put(@, s, [open |-> q.open,
                                 armed |-> W.h.fails[s] >= CIRCUIT_BREAKER_THRESHOLD,
                                 since |-> since,
                                 streak |-> IF s \in DOMAIN q.breaker
                                              THEN q.breaker[s].failure_count ELSE 0]),
        !.h.openedAt[s] = IF q.open THEN @ ELSE None,
        !.h.skipped = IF q.open THEN @ \cup {s} ELSE @]

\* ------------------------------------------------------- refresh machinery
OrZero(x) == IF x = None THEN 0 ELSE x

\* any((last_failure or 0) > (last_success or 0) for health in ...)
recent_failures(health) ==
  \E s \in DOMAIN health :
     OrZero(health[s].last_failure) > OrZero(health[s].last_success)

\* variant: the cache is tested for truth, so an empty mapping is no cache
cache_is_fresh_truthy(c, ts, health, t) ==
  /\ ~c.none
  /\ DOMAIN c.map # {}
  /\ ts # None
  /\ t - ts < CACHE_DURATION
  /\ ~recent_failures(health)

\* the fast path of _get_all_mcp_tools_impl
cache_is_fresh(c, ts, health, t) ==
  /\ ~c.none
  /\ ts # None
  /\ t - ts < CACHE_DURATION
  /\ ~recent_failures(health)

\* variant: the pre-warm writes a zeroed record for every provider
prewarm_reset(health) ==
  [s \in (DOMAIN health) \cup ServerNames |->
     IF s \in ServerNames THEN NewHealth ELSE health[s]]

\* pre-warm of the health table
prewarm(health) ==
  [s \in (DOMAIN health) \cup ServerNames |->
     IF s \in DOMAIN health THEN health[s] ELSE NewHealth]

\* variant: every failed attempt is recorded
should_record_failure_always(a) == TRUE

\* "if attempt == MAX_RETRIES - 1" of the connector's exception handlers
should_record_failure(a) == a = MAX_RETRIES - 1

\* "for attempt in range(MAX_RETRIES)": is there an attempt after attempt a
has_next_attempt(a) == a + 1 < MAX_RETRIES

\* ------------------------------------------------------------- monitoring
NewStats ==
  [attempts |-> 0, successes |-> 0, failures |-> 0, last_error |-> "none",
   last_success |-> None, last_failure |-> None]

\* record_mcp_connection_attempt(server_name, success, error) at time t
\* (success_rate, the quotient of two of the counts, is left out)
record_mcp_connection_attempt(m, s, success, error, t) ==
  LET m1 == IF s \in DOMAIN m THEN m ELSE Put(m, s, NewStats)
  IN IF success
       THEN [m1 EXCEPT ![s].attempts = @ + 1, ![s].successes = @ + 1,
                       ![s].last_success = t]
       ELSE [m1 EXCEPT ![s].attempts = @ + 1, ![s].failures = @ + 1,
                       ![s].last_failure = t, ![s].last_error = error]

\* which of the connector's exception handlers reports its final failure to
\* monitoring: only the handler of "except Exception"
reports_failure(fault) == fault = "other"

\* the monitoring table after the connector's attempt a on provider s ended
\* with fault at time t
metrics_after_fault(m, s, a, fault, t) ==
  IF should_record_failure(a) /\ reports_failure(fault)
    THEN record_mcp_connection_attempt(m, s, FALSE, <<"str", fault>>, t)
    ELSE m

\* the connector's own record when its last attempt failed
connector_final_failure(W, s, t) == Record(W, s, FALSE, t)

\* "if not success: _update_connection_health(server, False)" of the refresh
impl_on_failure(W, s, t) == Record(W, s, FALSE, t)

\* the synchronous run of the provider loop from provider i on, at time t:
\* a provider whose breaker is open makes the connector return False at once;
\* the run stops at the first provider that gets a connection attempt
RECURSIVE RunFrom(_, _, _)
RunFrom(W, i, t) ==
  IF i > Len(servers) THEN [W EXCEPT !.next = 0]
  ELSE LET s == servers[i]
           Q == Query(W, s, t)
       IN IF Q.h.queried[s].open
            THEN RunFrom(impl_on_failure(Q, s, t), i + 1, t)
            ELSE [Q EXCEPT !.next = i, !.h.started[s] = 1]

\* variant: the exponent is the attempt number itself
retry_delay_double(a) ==
  LET d == BASE_RETRY_DELAY * (2 ^ a)
  IN IF d < MAX_RETRY_DELAY THEN d ELSE MAX_RETRY_DELAY

\* min(BASE_RETRY_DELAY * 2 ** (attempt - 1), MAX_RETRY_DELAY)
retry_delay(a) ==
  LET d == BASE_RETRY_DELAY * (2 ^ (a - 1))
  IN IF d < MAX_RETRY_DELAY THEN d ELSE MAX_RETRY_DELAY

\* variant: nothing is discarded
filter_tools_all(tools) == tools

\* "{name: tool for name, tool in tools_dict.items() if name in required_tools}"
filter_tools(tools) == [n \in (DOMAIN tools) \cap required_tools |-> tools[n]]

\* variant: every refresh result is stored
should_store_always(filtered, c) == TRUE

\* "if filtered_tools or _mcp_tools_cache is None"
should_store(filtered, c) == DOMAIN filtered # {} \/ c.none

\* variant: the result is merged into the mapping already cached
stored_value_update(filtered, c) ==
  IF c.none THEN filtered ELSE Merge(c.map, filtered)

\* "_mcp_tools_cache = filtered_tools": the cache is replaced as a whole
stored_value(filtered, c) == filtered

\* what the refresh returns once every provider has been processed
refresh_return(filtered, c) == filtered

\* variant: the fallback returns the cache variable without the None test
timeout_fallback_unguarded(c) ==
  IF ~c.none THEN Value(c.map) ELSE [kind |-> "none"]

\* the fallback of _get_all_mcp_tools when the refresh is cancelled
timeout_fallback(c) == IF ~c.none THEN Value(c.map) ELSE Value(EmptyDict)

\* names for which '"tweet" in name' holds
TweetNames ==
  {"post_tweet", "delete_tweet", "like_tweet", "retweet", "get_tweets_by_IDs",
   "get_tweet_replies", "get_tweet_quotations", "get_tweet_thread_context"}

NoResult == [status |-> "none"]

\* the structured result of the operation that called get_tools
facade_result(kind, r) ==
  IF kind = "status"
    THEN IF r.kind # "value"
           THEN [status |-> "error"]
           ELSE [status |-> IF (DOMAIN r.map) \cap TweetNames # {}
                              THEN "healthy" ELSE "degraded",
                 total_tools |-> Cardinality(DOMAIN r.map)]
    ELSE NoResult

\* ------------------------------------------------------ invocation guard
\* how a provider tool's ainvoke ends: it returns value v ("ok"), raises a
\* fault with message v ("fault"), raises TimeoutError itself
\* ("timeout_fault"), or never completes ("hang")
Outcome(kind, v) == [kind |-> kind, value |-> v]
InvokeOutcomes ==
  {Outcome("ok", v) : v \in ToolResults}
    \cup {Outcome("fault", "boom"), Outcome("timeout_fault", "slow")}
Hang == Outcome("hang", "never")

\* a fault that leaves a function as a raised exception
Fault(msg) == [status |-> "raised", error |-> msg]

\* variant: the wrapped call is awaited as it is
execute_tool_with_timeout_unwrapped(o) ==
  IF o.kind = "ok" THEN o.value ELSE [status |-> "raised", error |-> o.value]

\* variant: only the timeout is converted, other faults pass through
execute_tool_with_timeout_reraise(o) ==
  CASE o.kind = "ok" -> o.value
    [] o.kind \in {"hang", "timeout_fault"} ->
         [status |-> "timeout",
          error |-> "Tool execution timed out after 30s"]
    [] OTHER -> Fault(o.value)

\* _execute_tool_with_timeout: wait_for with TOOL_EXECUTION_TIMEOUT, then
\* "except TimeoutError" (the one raised by wait_for on a call that does not
\* complete, or one raised by the call), then "except Exception"
execute_tool_with_timeout(o) ==
  CASE o.kind = "ok" -> o.value
    [] o.kind \in {"hang", "timeout_fault"} ->
         [status |-> "timeout",
          error |-> "Tool execution timed out after 30s"]
    [] OTHER -> [status |-> "error",
                 error |-> <<"Tool execution failed: ", o.value>>]

\* "await tools[name].ainvoke(...)" without the guard
direct_invoke(o) ==
  IF o.kind = "ok" THEN o.value ELSE Fault(o.value)

\* --------------------------------------------------- Twitter operations
WriteOps == {"post_tweet", "delete_tweet", "like_tweet", "retweet"}
ReadOps == {"advanced_search_twitter", "get_trends", "get_tweets_by_IDs",
            "get_tweet_replies", "get_tweet_quotations",
            "get_tweet_thread_context"}
FacadeOps == WriteOps \cup ReadOps

\* operations that test "name in tools" before indexing
checks_tool(op) ==
  op \in WriteOps \cup {"advanced_search_twitter", "get_tweet_thread_context"}

\* operations that invoke through _execute_tool_with_timeout
uses_guard(op) == op \in {"post_tweet", "advanced_search_twitter"}

\* variant: only the guarded operations have the try block
catches_faults_guarded(op) == uses_guard(op)

\* operations whose invocation is inside "try: ... except Exception"
catches_faults(op) ==
  op \in WriteOps \cup {"advanced_search_twitter", "get_tweet_thread_context"}

\* how many times the operation may fetch the registry
fetch_attempts(op) == IF op = "post_tweet" THEN POST_ATTEMPTS ELSE 1

\* variant: the cache is dropped on every attempt
retries_on_always(a) == TRUE

\* "if attempt == 0": post_tweet drops the cache and sleeps before it goes on
retries_on(a) == a = 0

\* post_tweet's final fallback
\* the dict of _get_connection_status, handed out under "debug_info"
connection_status == "connection_status"

post_fallback ==
  [status |-> "failed", error |-> "unavailable after retries",
   debug_info |-> connection_status]

\* operations whose "service unavailable" answer carries debug_info
hands_debug_info(op) == op \in WriteOps \cup {"advanced_search_twitter"}

\* the answer of an operation that finds its tool absent
unavailable(op) ==
  IF hands_debug_info(op)
    THEN [status |-> "failed", error |-> "unavailable",
          debug_info |-> connection_status]
    ELSE [status |-> "failed", error |-> "unavailable"]

\* what an operation does when _get_all_mcp_tools has handed it r, on
\* attempt a of its loop: next is where it goes (returned, op_sleep,
\* invoke), invalidate tells whether it sets the cache to None
after_fetch(op, a, r) ==
  IF op \notin FacadeOps
    THEN [next |-> "returned", invalidate |-> FALSE,
          result |-> facade_result(op, r), events |-> <<>>]
  ELSE IF r.kind # "value"
    THEN [next |-> "returned", invalidate |-> FALSE,
          result |-> Fault("TypeError"), events |-> <<>>]
  ELSE IF op \in DOMAIN r.map
    THEN [next |-> "invoke", invalidate |-> FALSE, result |-> NoResult,
          events |-> <<"present", "invoke">>]
  ELSE IF ~checks_tool(op)
    THEN [next |-> "returned", invalidate |-> FALSE,
          result |-> Fault("KeyError"), events |-> <<"absent">>]
  ELSE IF op = "post_tweet"
    THEN IF retries_on(a)
           THEN [next |-> "op_sleep", invalidate |-> TRUE,
                 result |-> NoResult, events |-> <<"absent", "invalidate">>]
           ELSE IF a + 1 < fetch_attempts(op)
             THEN [next |-> "op_sleep", invalidate |-> FALSE,
                   result |-> NoResult, events |-> <<"absent">>]
             ELSE [next |-> "returned", invalidate |-> FALSE,
                   result |-> post_fallback, events |-> <<"absent">>]
  ELSE [next |-> "returned", invalidate |-> FALSE,
        result |-> unavailable(op),
        events |-> <<"absent">>]

\* what an operation does when its invocation ended with outcome o
after_invoke(op, a, o) ==
  LET r == IF uses_guard(op) THEN execute_tool_with_timeout(o)
                             ELSE direct_invoke(o)
  IN IF r.status # "raised" \/ ~catches_faults(op)
       THEN [next |-> "returned", invalidate |-> FALSE, result |-> r,
             events |-> <<o.kind>>]
     ELSE IF op = "post_tweet"
       THEN IF retries_on(a)
              THEN [next |-> "op_sleep", invalidate |-> TRUE,
                    result |-> NoResult, events |-> <<o.kind, "invalidate">>]
              ELSE [next |-> "returned", invalidate |-> FALSE,
                    result |-> [status |-> "failed",
                                error |-> <<"failed: ", r.error>>],
                    events |-> <<o.kind>>]
     ELSE [next |-> "returned", invalidate |-> FALSE,
           result |-> [status |-> "failed", error |-> <<"failed: ", r.error>>],
           events |-> <<o.kind>>]

Elapsed == now - current_time

\* a task that is not inside get_tools
IdleTask == [pc |-> "idle", srv |-> 0, attempt |-> 0, tools |-> EmptyDict,
             t0 |-> None, wake |-> None]

\* ------------------------------------------------------------------ actions
Init ==
  /\ now = StartTime
  /\ mcp_tools_cache = NoCache
  /\ cache_timestamp = None
  /\ connection_health = EmptyDict
  /\ circuit_breaker = EmptyDict
  /\ pc = "idle"
  /\ caller = "none"
  /\ current_time = None
  /\ srv = 0
  /\ attempt = 0
  /\ op_attempt = 0
  /\ tools_dict = EmptyDict
  /\ ret = NoRet
  /\ via = "none"
  /\ result = NoResult
  /\ oks = 0
  /\ hangs = 0
  /\ ops = 0
  /\ tasks = [k \in Tasks |-> IdleTask]
  /\ metrics = EmptyDict
  /\ overdue = FALSE
  /\ hist = InitHist

\* _get_all_mcp_tools hands r to the operation kind, which is on attempt a
\* of its loop and goes on to its next suspension point or to its end; c is
\* the cache and h the observations at that moment
\* what a holder of the dict built by _get_connection_status reads under
\* "health": the dict holds the table _connection_health itself, so the
\* reader sees the table as it is when it reads (live), not as it was when
\* the dict was built (at_return)
snapshot_health(at_return, live) == live

\* the operations that hand the caller the health table in their result
returns_health(kind, res) ==
  kind = "status" \/ "debug_info" \in DOMAIN res

\* the table as it is when an operation hands it out with the result res
Snap(kind, res, health) ==
  IF returns_health(kind, res) THEN [none |-> FALSE, health |-> health]
                               ELSE NoSnap

\* operations of this module that go on after "await _get_all_mcp_tools()"
has_continuation(kind) == kind \in FacadeOps \cup {"status"}

\* _get_all_mcp_tools hands r to its caller. wait_for ran the refresh as a
\* task of its own, so an operation of this module awaiting it goes on only
\* in a later pass of the event loop (pc = "fetched")
Return(kind, a, r, how, c, h) ==
  /\ pc' = IF has_continuation(kind) THEN "fetched" ELSE "returned"
  /\ ret' = r
  /\ via' = how
  /\ result' = NoResult
  /\ mcp_tools_cache' = c
  /\ op_attempt' = a
  /\ hist' = [h EXCEPT !.snap = NoSnap]
  /\ srv' = 0
  /\ attempt' = 0
  /\ tools_dict' = EmptyDict

\* the operation goes on with what _get_all_mcp_tools handed it
Resume ==
  /\ pc = "fetched"
  /\ LET f == after_fetch(caller, op_attempt, ret)
     IN /\ pc' = f.next
        /\ result' = f.result
        /\ mcp_tools_cache' = IF f.invalidate THEN NoCache ELSE mcp_tools_cache
        /\ hist' = [hist EXCEPT !.log = @ \o f.events,
                                !.snap = Snap(caller, f.result,
                                              connection_health)]
  /\ UNCHANGED <<now, cache_timestamp, connection_health, circuit_breaker,
                 caller, current_time, srv, attempt, op_attempt, tools_dict,
                 ret, via, oks, hangs, ops, tasks, metrics, overdue>>

\* the provider loop continues from provider i at time t with accumulator
\* tools: it either suspends on a connection attempt or completes the refresh
Proceed(kind, a, W, i, tools, c, t) ==
  LET W2 == RunFrom(W, i, t)
      filtered == filter_tools(tools)
      store == should_store(filtered, c)
  IN /\ connection_health' = W2.health
     /\ circuit_breaker' = W2.breaker
     /\ IF W2.next # 0
          THEN /\ pc' = "connect"
               /\ srv' = W2.next
               /\ attempt' = 0
               /\ tools_dict' = tools
               /\ mcp_tools_cache' = c
               /\ op_attempt' = a
               /\ hist' = W2.h
               /\ UNCHANGED <<cache_timestamp, ret, via, result>>
          ELSE /\ cache_timestamp' = IF store THEN current_time'
                                              ELSE cache_timestamp
               /\ Return(kind, a, Value(refresh_return(filtered, c)), "refresh",
                         IF store THEN Cached(stored_value(filtered, c)) ELSE c,
                         [W2.h EXCEPT !.fresh = Value(filtered)])

\* "tools = await _get_all_mcp_tools()" at time t by the operation kind on
\* attempt a of its loop, with cache c
Enter(kind, a, c, h, t) ==
  /\ caller' = kind
  /\ current_time' = t
  /\ overdue' = FALSE
  /\ LET h0 == NewCallHist(h, c, cache_timestamp,
                           connection_health, circuit_breaker)
     IN IF cache_is_fresh(c, cache_timestamp, connection_health, t)
          THEN /\ UNCHANGED <<cache_timestamp, connection_health, circuit_breaker>>
               /\ Return(kind, a, Value(c.map), "cache", c, h0)
          ELSE Proceed(kind, a,
                       World(prewarm(connection_health), circuit_breaker, h0),
                       1, EmptyDict, c, t)

\* variant: the status operation keeps the cache
entry_cache_keep(kind, c) == c

\* the cache an operation calls _get_all_mcp_tools with:
\* check_twitter_connection_status first sets it to None
entry_cache(kind, c) == IF kind = "status" THEN NoCache ELSE c

\* variant: the refresh is never cut short by its own timeout
before_deadline_always(e) == TRUE

\* the refresh, begun e time-units ago, is still inside
\* wait_for(..., timeout=15.0)
before_deadline(e) == e < GLOBAL_TIMEOUT

\* an attempt answered when the refresh is e time-units old is answered in
\* the loop pass in which the timer of wait_for(..., timeout=15.0) fires:
\* the inner wait_for finds its future done and returns its result instead
\* of the cancellation
absorbs_timeout(e) == e = GLOBAL_TIMEOUT

\* an answer arriving when the refresh is e time-units old still reaches the
\* connector
answer_in_time(e, late) == late \/ before_deadline(e) \/ absorbs_timeout(e)

\* the timer of a backoff sleep ending when the refresh is e time-units old
\* is due at the instant of the timer of wait_for(..., timeout=15.0): the
\* event loop orders its timers by their deadline alone, so either may fire
\* first
ties_deadline(e) == e = GLOBAL_TIMEOUT

\* a backoff sleep ending when the refresh is e time-units old can end
\* before the refresh is cancelled
sleep_in_time(e, late) == late \/ before_deadline(e) \/ ties_deadline(e)

\* a backoff sleep ending when the refresh is e time-units old can be cut
\* off by the cancellation of the refresh
sleep_cut_off(e, late) == ~late /\ ~before_deadline(e)

\* an operation is called: get_tools goes straight into
\* _get_all_mcp_tools; check_twitter_connection_status sets the cache to
\* None and then awaits it
Call(kind) ==
  /\ pc = "idle"
  /\ UNCHANGED <<oks, hangs, ops, tasks, metrics>>
  /\ now' = now
  /\ LET h == [NewOpHist(Elapse(hist, now)) EXCEPT
                 !.dropped = IF kind = "status" THEN mcp_tools_cache
                                                ELSE NoCache]
     IN IF kind = "status"
          THEN /\ pc' = "entering"
               /\ caller' = kind
               /\ mcp_tools_cache' = entry_cache(kind, mcp_tools_cache)
               /\ hist' = h
               /\ UNCHANGED <<cache_timestamp, connection_health,
                              circuit_breaker, current_time, srv, attempt,
                              op_attempt, tools_dict, ret, via, result,
                              overdue>>
          ELSE Enter(kind, 0, mcp_tools_cache, h, now)

\* the refresh that check_twitter_connection_status awaits starts: wait_for
\* runs it as a task of its own, one pass of the event loop after the cache
\* was set to None
Begin ==
  /\ pc = "entering"
  /\ UNCHANGED <<oks, hangs, ops, tasks, metrics>>
  /\ now' = now
  /\ Enter(caller, 0, mcp_tools_cache, hist, now)

\* a Twitter operation is called: it begins by fetching the registry
OpCall(op) ==
  /\ pc = "idle"
  /\ now <= MaxFacadeTime
  /\ UNCHANGED <<oks, hangs, ops, tasks, metrics>>
  /\ now' = now
  /\ Enter(op, 0, mcp_tools_cache, NewOpHist(Elapse(hist, now)), now)

\* an answer arriving d time-units after its attempt began can reach the
\* connector: before the timer of wait_for(...,
\* timeout=MCP_CONNECTION_TIMEOUT) is due, or at that very instant, when
\* either may come first
attempt_in_time(d) == d <= MCP_CONNECTION_TIMEOUT

\* the connection attempt in flight succeeds after d time-units and the
\* provider enumerates the tools in offer
AttemptOk(d, offer) ==
  /\ pc = "connect"
  /\ answer_in_time(Elapsed + d, overdue)
  /\ overdue' = (overdue \/ ~before_deadline(Elapsed + d))
  /\ attempt_in_time(d)
  /\ oks < MaxOk
  /\ oks' = oks + 1
  /\ now' = now + d
  /\ UNCHANGED <<caller, current_time, hangs, ops, tasks>>
  /\ metrics' = record_mcp_connection_attempt(metrics, servers[srv], TRUE,
                                              "none", now')
  /\ LET s == servers[srv]
         tools == Merge(tools_dict, [n \in offer |-> s])
         W0 == World(connection_health, circuit_breaker, Elapse(hist, now'))
         W1 == Record(W0, s, TRUE, now')
         W2 == [W1 EXCEPT !.h.connected = @ \cup {s}, !.h.connFails[s] = 0,
                          !.h.okAt[s] = W0.h.started[s],
                          !.h.offered[s] = offer,
                          !.h.answered = @ \cup {s},
                          !.h.lastOffer[s] = offer]
     IN Proceed(caller, op_attempt, W2, srv + 1, tools, mcp_tools_cache, now')

\* the connection attempt in flight ends after d time-units in the handler
\* of fault: TimeoutError, an httpx transport fault, or any other exception.
\* by_provider: the provider raised the fault; otherwise the timer of
\* wait_for(..., timeout=MCP_CONNECTION_TIMEOUT) ended the attempt
AttemptEnds(d, fault, by_provider) ==
  /\ pc = "connect"
  /\ answer_in_time(Elapsed + d, overdue)
  /\ overdue' = (overdue \/ ~before_deadline(Elapsed + d))
  /\ attempt_in_time(d)
  /\ now' = now + d
  /\ UNCHANGED <<caller, current_time, oks, hangs, ops, tasks>>
  /\ metrics' = metrics_after_fault(metrics, servers[srv], attempt, fault, now')
  /\ LET s == servers[srv]
         H0 == Elapse(hist, now')
         W0 == World(connection_health, circuit_breaker,
                     IF by_provider
                       THEN [H0 EXCEPT !.answered = @ \cup {s}] ELSE H0)
         W1 == IF should_record_failure(attempt)
                 THEN connector_final_failure(W0, s, now') ELSE W0
     IN IF ~has_next_attempt(attempt)
          THEN LET W2 == impl_on_failure(W1, s, now')
                   W3 == [W2 EXCEPT !.h.exhausted = @ \cup {s},
                                    !.h.connFails[s] = @ + 1]
               IN Proceed(caller, op_attempt, W3, srv + 1, tools_dict,
                          mcp_tools_cache, now')
          ELSE /\ pc' = "sleep"
               /\ attempt' = attempt + 1
               /\ connection_health' = W1.health
               /\ circuit_breaker' = W1.breaker
               /\ hist' = W1.h
               /\ UNCHANGED <<mcp_tools_cache, cache_timestamp, op_attempt,
                              srv, tools_dict, ret, via, result>>

\* the provider answers the connection attempt in flight with fault after
\* d time-units
AttemptFault(d, fault) == AttemptEnds(d, fault, TRUE)

\* the connection attempt in flight is still unanswered when its
\* wait_for(..., timeout=MCP_CONNECTION_TIMEOUT) expires
AttemptTimesOut == AttemptEnds(MCP_CONNECTION_TIMEOUT, "timeout", FALSE)

\* the backoff sleep before the next attempt is over
SleepDone ==
  /\ pc = "sleep"
  /\ sleep_in_time(Elapsed + retry_delay(attempt), overdue)
  /\ now' = now + retry_delay(attempt)
  /\ pc' = "connect"
  /\ hist' = [AttemptStart(Elapse(hist, now'), circuit_breaker,
                           servers[srv], now') EXCEPT
                !.started[servers[srv]] = @ + 1,
                !.slept[servers[srv]] = Append(@, retry_delay(attempt))]
  /\ UNCHANGED <<mcp_tools_cache, cache_timestamp, connection_health,
                 circuit_breaker, caller, current_time, srv, attempt,
                 op_attempt, tools_dict, ret, via, result, oks, hangs, ops,
                 tasks, metrics, overdue>>

\* wait_for(..., timeout=15.0) expires while the refresh is suspended (the
\* attempt in flight hangs or is too slow, or the sleep runs past the
\* deadline): the refresh is cancelled and the fallback is returned
Expire ==
  /\ ~overdue
  /\ \/ pc = "connect"
     \/ pc = "sleep" /\ sleep_cut_off(Elapsed + retry_delay(attempt), overdue)
  /\ now' = current_time + GLOBAL_TIMEOUT
  /\ UNCHANGED <<cache_timestamp, connection_health,
                 circuit_breaker, caller, current_time, oks, ops, tasks, metrics, overdue>>
  /\ Return(caller, op_attempt, timeout_fallback(mcp_tools_cache), "timeout",
            mcp_tools_cache, Elapse(hist, now'))

\* the expiry, within the budget of cancelled refreshes
GlobalTimeout ==
  /\ hangs < MaxHang
  /\ hangs' = hangs + 1
  /\ Expire

\* nothing is called for d time-units
Idle(d) ==
  /\ pc = "returned"
  /\ now + d <= MaxTime
  /\ now' = now + d
  /\ pc' = "idle"
  /\ caller' = "none"
  /\ current_time' = None
  /\ ret' = NoRet
  /\ via' = "none"
  /\ result' = NoResult
  /\ hist' = ClearCallHist(Elapse(hist, now'))
  /\ UNCHANGED <<mcp_tools_cache, cache_timestamp, connection_health,
                 circuit_breaker, srv, attempt, op_attempt, tools_dict,
                 oks, hangs, ops, tasks, metrics, overdue>>

\* the operation goes on after its invocation, or its sleep, is over
Finish(f, h) ==
  /\ pc' = f.next
  /\ result' = f.result
  /\ mcp_tools_cache' = IF f.invalidate THEN NoCache ELSE mcp_tools_cache
  /\ hist' = [h EXCEPT !.log = @ \o f.events]
  /\ UNCHANGED <<cache_timestamp, connection_health, circuit_breaker, caller,
                 current_time, srv, attempt, op_attempt, tools_dict, ret, via,
                 oks, hangs, ops, tasks, metrics, overdue>>

\* what the guard saw and answered, when the operation invokes through it
Guarded(h, op, o) ==
  IF uses_guard(op)
    THEN [h EXCEPT !.guardIn = o, !.guardOut = execute_tool_with_timeout(o)]
    ELSE h

\* the provider tool's ainvoke ends with outcome o
InvokeDone(o) ==
  /\ pc = "invoke"
  /\ now' = now
  /\ Finish(after_invoke(caller, op_attempt, o), Guarded(hist, caller, o))

\* the provider tool's ainvoke does not complete and the guard's
\* wait_for(..., timeout=TOOL_EXECUTION_TIMEOUT) expires
InvokeTimeout ==
  /\ pc = "invoke"
  /\ uses_guard(caller)
  /\ now' = now + TOOL_EXECUTION_TIMEOUT
  /\ Finish(after_invoke(caller, op_attempt, Hang),
            Guarded(Elapse(hist, now'), caller, Hang))

\* post_tweet's "await asyncio.sleep(1)" is over: the loop goes on to its
\* next attempt, or ends in the final fallback
OpSleepDone ==
  /\ pc = "op_sleep"
  /\ now' = now + POST_RETRY_SLEEP
  /\ UNCHANGED <<oks, hangs, ops, tasks, metrics>>
  /\ IF op_attempt + 1 < fetch_attempts(caller)
       THEN Enter(caller, op_attempt + 1, mcp_tools_cache,
                  Elapse(hist, now'), now')
       ELSE /\ pc' = "returned"
            /\ result' = post_fallback
            /\ hist' = [Elapse(hist, now') EXCEPT
                          !.snap = Snap(caller, post_fallback,
                                        connection_health)]
            /\ UNCHANGED <<mcp_tools_cache, cache_timestamp, connection_health,
                           circuit_breaker, caller, current_time, srv, attempt,
                           op_attempt, tools_dict, ret, via, overdue>>

Next ==
  \/ \E kind \in {"get_tools", "status"} : Call(kind)
  \/ Begin
  \/ Resume
  \/ \E d \in AttemptDurations, offer \in ToolOffers : AttemptOk(d, offer)
  \/ \E d \in AttemptDurations \cup {MCP_CONNECTION_TIMEOUT},
        f \in ConnectFaults : AttemptFault(d, f)
  \/ SleepDone
  \/ GlobalTimeout
  \/ \E d \in IdleJumps : Idle(d)

Spec == Init /\ [][Next]_vars

\* ------------------------------------- get_tools as monitoring sees it
\* monitoring.reset_metrics(): the table is bound to an empty one
reset_metrics ==
  /\ metrics' = EmptyDict
  /\ UNCHANGED <<now, mcp_tools_cache, cache_timestamp, connection_health,
                 circuit_breaker, pc, caller, current_time, srv, attempt,
                 op_attempt, tools_dict, ret, via, result, oks, hangs, ops,
                 tasks, overdue, hist>>

\* get_tools called again and again, a failing attempt ending with any of
\* the three kinds of fault
MonitorNext ==
  \/ Call("get_tools")
  \/ \E d \in AttemptDurations, s \in ServerNames :
       \E offer \in ConcOffers[s] :
          srv # 0 /\ servers[srv] = s /\ AttemptOk(d, offer)
  \/ \E d \in AttemptDurations, f \in Faults : AttemptFault(d, f)
  \/ SleepDone
  \/ GlobalTimeout
  \/ reset_metrics
  \/ \E d \in MonitorJumps : Idle(d)

SpecMonitor == Init /\ [][MonitorNext]_vars

\* --------------------------- get_tools in front of a first provider that
\* may never answer
\* The first provider answers an attempt at once or just as a timer
\* expires (tools or a fault), or not at all, as often as it likes; the second provider answers every attempt at once with a
\* required tool.
FirstAnswers(d, offer) == srv = 1 /\ AttemptOk(d, offer)

FirstFails(d, fault) == srv = 1 /\ AttemptFault(d, fault)

\* wait_for(..., timeout=15.0) expires while the refresh waits on the first
\* provider: an attempt is still unanswered, or a backoff sleep is not over
FirstHangs == srv = 1 /\ UNCHANGED hangs /\ Expire

\* the attempt on the first provider is still unanswered when its own
\* wait_for(..., timeout=MCP_CONNECTION_TIMEOUT) expires
FirstTimesOut == srv = 1 /\ AttemptTimesOut

SecondAnswers == srv = 2 /\ AttemptOk(0, SecondOffer)

StarveNext ==
  \/ Call("get_tools")
  \/ \E d \in StarveDurations, offer \in ToolOffers : FirstAnswers(d, offer)
  \/ \E d \in StarveDurations, f \in ConnectFaults : FirstFails(d, f)
  \/ FirstTimesOut
  \/ FirstHangs
  \/ SecondAnswers
  \/ SleepDone
  \/ \E d \in StarveJumps : Idle(d)

SpecStarve == Init /\ [][StarveNext]_vars

\* ------------------------------------------------ the Twitter operations
FacadeNext ==
  \/ \E op \in FacadeOps : OpCall(op)
  \/ Resume
  \/ \E d \in AttemptDurations, offer \in FacadeOffers : AttemptOk(d, offer)
  \/ \E d \in AttemptDurations \cup {MCP_CONNECTION_TIMEOUT},
        f \in ConnectFaults : AttemptFault(d, f)
  \/ SleepDone
  \/ GlobalTimeout
  \/ \E o \in InvokeOutcomes : InvokeDone(o)
  \/ InvokeTimeout
  \/ OpSleepDone
  \/ \E d \in FacadeJumps : Idle(d)

SpecFacade == Init /\ [][FacadeNext]_vars

\* the timers of the source fire: the backoff sleep, the whole-refresh
\* timeout, the guard's timeout and post_tweet's sleep; whether a provider
\* ever answers is left open
SpecFacadeLive ==
  /\ SpecFacade
  /\ WF_vars(Resume)
  /\ WF_vars(SleepDone)
  /\ WF_vars(GlobalTimeout)
  /\ WF_vars(InvokeTimeout)
  /\ WF_vars(OpSleepDone)

\* ------------------------------------------ concurrent get_tools calls
\* Two tasks call _get_all_mcp_tools on one event loop: each runs the code
\* between two awaits as one step; cache, timestamp, health and breaker
\* tables are shared, tools_dict and current_time are locals of each call.
\* As in the sequential runs a connection attempt answers at the instant it
\* was started, or not at all; the clock moves from timer to timer.
SeqVars == <<pc, caller, current_time, srv, attempt, op_attempt, tools_dict,
             ret, via, result, overdue>>

\* only the observations that outlive a call are kept
ConcHist(h) ==
  [InitHist EXCEPT !.results = h.results, !.ungated = h.ungated]

\* the deadline of wait_for(..., timeout=15.0) of task k
Deadline(k) == tasks[k].t0 + GLOBAL_TIMEOUT

\* task k's timer is the next one to fire: no other timer is earlier, and
\* no attempt started at the present instant is still to be answered
FiresNext(k) ==
  /\ \A j \in Tasks \ {k} :
        tasks[j].pc \in {"sleep", "hung"} => tasks[k].wake <= tasks[j].wake
  /\ tasks[k].wake > now => \A j \in Tasks : tasks[j].pc # "connect"

\* task k's provider loop continues from provider i with accumulator tools
ConcProceed(k, W, i, tools, t0, t) ==
  LET W2 == RunFrom(W, i, t)
      filtered == filter_tools(tools)
      store == should_store(filtered, mcp_tools_cache)
  IN /\ connection_health' = W2.health
     /\ circuit_breaker' = W2.breaker
     /\ IF W2.next # 0
          THEN /\ tasks' = [tasks EXCEPT ![k] =
                              [pc |-> "connect", srv |-> W2.next, attempt |-> 0,
                               tools |-> tools, t0 |-> t0, wake |-> None]]
               /\ hist' = ConcHist(AttemptStart(W2.h, W2.breaker,
                                                servers[W2.next], t))
               /\ UNCHANGED <<mcp_tools_cache, cache_timestamp>>
          ELSE /\ tasks' = [tasks EXCEPT ![k] = IdleTask]
               /\ hist' = [ConcHist(W2.h) EXCEPT !.results = @ \cup {filtered}]
               /\ mcp_tools_cache' =
                    IF store THEN Cached(stored_value(filtered, mcp_tools_cache))
                             ELSE mcp_tools_cache
               /\ cache_timestamp' = IF store THEN t0 ELSE cache_timestamp

\* task k calls _get_all_mcp_tools; the tasks are interchangeable, and the
\* one that calls while the other is idle is named 1
ConcCall(k) ==
  /\ tasks[k].pc = "idle"
  /\ k # 1 => tasks[1].pc # "idle"
  /\ ops < MaxConcCalls
  /\ ops' = ops + 1
  /\ UNCHANGED <<now, oks, hangs, SeqVars, metrics>>
  /\ IF cache_is_fresh(mcp_tools_cache, cache_timestamp, connection_health, now)
       THEN UNCHANGED <<mcp_tools_cache, cache_timestamp, connection_health,
                        circuit_breaker, tasks, hist>>
       ELSE ConcProceed(k, World(prewarm(connection_health), circuit_breaker,
                                 Elapse(hist, now)),
                        1, EmptyDict, now, now)

\* task k's connection attempt succeeds and enumerates offer
ConcAttemptOk(k, offer) ==
  /\ tasks[k].pc = "connect"
  /\ offer \in ConcOffers[servers[tasks[k].srv]]
  /\ oks < MaxOk
  /\ oks' = oks + 1
  /\ UNCHANGED <<now, hangs, ops, SeqVars>>
  /\ metrics' = record_mcp_connection_attempt(metrics, servers[tasks[k].srv],
                                              TRUE, "none", now)
  /\ LET s == servers[tasks[k].srv]
         W0 == World(connection_health, circuit_breaker, hist)
         W1 == Record(W0, s, TRUE, now)
     IN ConcProceed(k, W1, tasks[k].srv + 1,
                    Merge(tasks[k].tools, [n \in offer |-> s]),
                    tasks[k].t0, now)

\* task k's connection attempt fails
ConcAttemptFault(k, fault) ==
  /\ tasks[k].pc = "connect"
  /\ UNCHANGED <<now, oks, hangs, ops, SeqVars>>
  /\ metrics' = metrics_after_fault(metrics, servers[tasks[k].srv],
                                    tasks[k].attempt, fault, now)
  /\ LET s == servers[tasks[k].srv]
         a == tasks[k].attempt
         W0 == World(connection_health, circuit_breaker, hist)
         W1 == IF should_record_failure(a)
                 THEN connector_final_failure(W0, s, now) ELSE W0
     IN IF ~has_next_attempt(a)
          THEN ConcProceed(k, impl_on_failure(W1, s, now), tasks[k].srv + 1,
                           tasks[k].tools, tasks[k].t0, now)
          ELSE /\ tasks' = [tasks EXCEPT ![k].pc = "sleep",
                                         ![k].attempt = a + 1,
                                         ![k].wake = now + retry_delay(a + 1)]
               /\ connection_health' = W1.health
               /\ circuit_breaker' = W1.breaker
               /\ hist' = ConcHist(W1.h)
               /\ UNCHANGED <<mcp_tools_cache, cache_timestamp>>

\* task k's connection attempt gets no answer: only the whole-refresh
\* timeout will end it
ConcHang(k) ==
  /\ tasks[k].pc = "connect"
  /\ hangs < MaxHang
  /\ hangs' = hangs + 1
  /\ tasks' = [tasks EXCEPT ![k].pc = "hung", ![k].wake = Deadline(k)]
  /\ UNCHANGED <<now, mcp_tools_cache, cache_timestamp, connection_health,
                 circuit_breaker, oks, ops, hist, SeqVars,
                 metrics>>

\* task k's backoff sleep is over and its next attempt starts
ConcSleepDone(k) ==
  /\ tasks[k].pc = "sleep"
  /\ tasks[k].wake < Deadline(k)
  /\ FiresNext(k)
  /\ now' = tasks[k].wake
  /\ tasks' = [tasks EXCEPT ![k].pc = "connect", ![k].wake = None]
  /\ hist' = ConcHist(AttemptStart(Elapse(hist, now'), circuit_breaker,
                                   servers[tasks[k].srv], now'))
  /\ UNCHANGED <<mcp_tools_cache, cache_timestamp, connection_health,
                 circuit_breaker, oks, hangs, ops, SeqVars,
                 metrics>>

\* task k's wait_for(..., timeout=15.0) expires: its refresh is cancelled
\* and the cache is left as it is
ConcTimeout(k) ==
  /\ tasks[k].pc = "hung"
  /\ FiresNext(k)
  /\ now' = tasks[k].wake
  /\ tasks' = [tasks EXCEPT ![k] = IdleTask]
  /\ hist' = ConcHist(Elapse(hist, now'))
  /\ UNCHANGED <<mcp_tools_cache, cache_timestamp, connection_health,
                 circuit_breaker, oks, hangs, ops, SeqVars,
                 metrics>>

ConcNext ==
  \/ \E k \in Tasks : ConcCall(k)
  \/ \E k \in Tasks, offer \in UNION {ConcOffers[s] : s \in ServerNames} :
       ConcAttemptOk(k, offer)
  \/ \E k \in Tasks, fault \in ConnectFaults : ConcAttemptFault(k, fault)
  \/ \E k \in Tasks : ConcHang(k)
  \/ \E k \in Tasks : ConcSleepDone(k)
  \/ \E k \in Tasks : ConcTimeout(k)

SpecConc == Init /\ [][ConcNext]_vars

\* ------------------------------------------- the health tracker on its own
\* The tracker's functions are module-level and are also called directly (the
\* unit tests do): here they are the operations, applied in any order.
CallVars == <<mcp_tools_cache, cache_timestamp, pc, caller, current_time, srv,
              attempt, op_attempt, tools_dict, ret, via, result, oks, hangs,
              tasks, metrics, overdue>>

\* _update_connection_health(s, success)
TrackerRecord(s, success) ==
  /\ ops < MaxOps
  /\ ops' = ops + 1
  /\ LET W == Record(World(connection_health, circuit_breaker, hist),
                     s, success, now)
     IN /\ connection_health' = W.health
        /\ circuit_breaker' = W.breaker
        /\ hist' = W.h
  /\ UNCHANGED <<now, CallVars>>

\* _update_circuit_breaker(s)
TrackerBreaker(s) ==
  /\ ops < MaxOps
  /\ ops' = ops + 1
  /\ circuit_breaker' = update_circuit_breaker(circuit_breaker, s, now)
  /\ hist' = [hist EXCEPT
        !.fails[s] = @ + 1,
        !.lastFail[s] = now,
        !.openedAt[s] = IF ~FlagOpen(circuit_breaker, s)
                           /\ FlagOpen(circuit_breaker', s) THEN now ELSE @]
  /\ UNCHANGED <<now, connection_health, CallVars>>

\* _is_circuit_breaker_open(s)
TrackerQuery(s) ==
  /\ LET W == Query(World(connection_health, circuit_breaker, hist), s, now)
     IN /\ circuit_breaker' = W.breaker
        /\ hist' = [W.h EXCEPT !.skipped = {}]
  /\ UNCHANGED <<now, connection_health, ops, CallVars>>

\* d time-units pass
TrackerTick(d) ==
  /\ now + d <= MaxTime
  /\ now' = now + d
  /\ hist' = [Elapse(hist, now') EXCEPT !.queried = EmptyDict]
  /\ UNCHANGED <<connection_health, circuit_breaker, ops, CallVars>>

TrackerNext ==
  \/ \E s \in ServerNames, success \in BOOLEAN : TrackerRecord(s, success)
  \/ \E s \in ServerNames : TrackerBreaker(s)
  \/ \E s \in ServerNames : TrackerQuery(s)
  \/ \E d \in IdleJumps : TrackerTick(d)

SpecTracker == Init /\ [][TrackerNext]_vars

TypeOK ==
  /\ pc \in {"idle", "entering", "connect", "sleep", "fetched", "op_sleep",
            "invoke", "returned"}
  /\ overdue \in BOOLEAN
  /\ op_attempt \in 0..(POST_ATTEMPTS - 1)
  /\ now >= StartTime
  /\ now <= MaxTime + Len(servers) * MAX_RETRIES
                       * (MCP_CONNECTION_TIMEOUT + MAX_RETRY_DELAY)

\* ------------------------------------------------------------- properties
PreFailureCount(s) ==
  IF s \in DOMAIN hist.pre.health THEN hist.pre.health[s].failure_count ELSE 0

PreHadCache == ~hist.pre.none /\ ~hist.pre.cache.none
PreCacheNonEmpty == PreHadCache /\ DOMAIN hist.pre.cache.map # {}
FreshEmpty == hist.fresh.kind = "value" /\ DOMAIN hist.fresh.map = {}

\* C1: a provider skipped because its breaker is open gets no health record:
\* when get_tools has returned, the provider's health record and breaker
\* record are what they were before the call.
C1_SkipLeavesRecords ==
  pc = "returned" =>
    \A s \in hist.skipped :
       /\ s \in DOMAIN hist.pre.health
       /\ s \in DOMAIN hist.pre.breaker
       /\ connection_health[s] = hist.pre.health[s]
       /\ s \in DOMAIN circuit_breaker
       /\ circuit_breaker[s].failure_count = hist.pre.breaker[s].failure_count
       /\ circuit_breaker[s].last_failure = hist.pre.breaker[s].last_failure

\* C2: a breaker query made more than CIRCUIT_BREAKER_TIMEOUT after the
\* failure that opened the breaker finds it closed with a zero streak, and a
\* connection attempt is made, whatever calls were made in between.
C2_ResetAfterCooldown ==
  \A s \in DOMAIN hist.queried :
     (hist.queried[s].since # None
        /\ hist.queried[s].since > CIRCUIT_BREAKER_TIMEOUT)
     => /\ ~hist.queried[s].open
        /\ hist.queried[s].streak = 0
        /\ hist.started[s] >= 1

\* C3: once 3 failures in a row have been recorded for a provider, a breaker
\* query answers open, until a success is recorded or more than
\* CIRCUIT_BREAKER_TIMEOUT has passed since the last failure. Both the
\* queries the connector made and a query made in the current state are
\* covered.
C3_OpenWhileArmed ==
  /\ \A s \in DOMAIN hist.queried :
        hist.queried[s].armed => hist.queried[s].open
  /\ \A s \in ServerNames :
        hist.fails[s] >= CIRCUIT_BREAKER_THRESHOLD
        => is_circuit_breaker_open(circuit_breaker, s, now).open

C3_Witness ==
  \E s \in DOMAIN hist.queried :
     /\ hist.queried[s].armed
     /\ hist.queried[s].open
     /\ hist.fails[s] >= CIRCUIT_BREAKER_THRESHOLD

\* C4: a connector invocation whose 3 attempts all fail records one failure:
\* over the call, failure_count grows by exactly 1 and the breaker streak by
\* exactly 1 (from the streak the connector's breaker query left).
C4_OneFailurePerExhaustion ==
  pc = "returned" =>
    \A s \in hist.exhausted :
       /\ connection_health[s].failure_count = PreFailureCount(s) + 1
       /\ s \in DOMAIN circuit_breaker
       /\ circuit_breaker[s].failure_count = hist.queried[s].streak + 1

\* C5: the breaker is still closed after the first and after the second
\* failed connection in a row, and is open after the third (as long as the
\* run of failures has not been ended by the cool-down).
C5_OpensOnThird ==
  \A s \in ServerNames :
     /\ hist.connFails[s] \in {1, 2} => ~FlagOpen(circuit_breaker, s)
     /\ (hist.connFails[s] = 3 /\ hist.fails[s] >= CIRCUIT_BREAKER_THRESHOLD)
          => FlagOpen(circuit_breaker, s)

SuccessCount(health, s) ==
  IF s \in DOMAIN health THEN health[s].success_count ELSE 0

\* C6: a step that records a success for a provider leaves the provider
\* without a breaker record: a query then answers closed and the streak is
\* zero, whatever the record was before.
C6_SuccessClearsBreaker ==
  [][\A s \in ServerNames :
       SuccessCount(connection_health', s) > SuccessCount(connection_health, s)
       => /\ s \notin DOMAIN circuit_breaker'
          /\ ~is_circuit_breaker_open(circuit_breaker', s, now').open]_vars

C6_Witness ==
  \E s \in hist.connected :
     /\ s \in DOMAIN hist.pre.breaker
     /\ hist.pre.breaker[s].is_open
     /\ hist.pre.breaker[s].failure_count >= CIRCUIT_BREAKER_THRESHOLD
     /\ s \notin DOMAIN circuit_breaker

\* C7: a completed refresh whose filtered result is empty, made while a
\* non-empty cache exists, leaves the cache and its timestamp unchanged; a
\* refresh replaces a non-empty cache only by a result with at least one tool.
C7_EmptyRefreshKeepsCache ==
  (pc = "returned" /\ via = "refresh" /\ PreCacheNonEmpty) =>
     /\ FreshEmpty => /\ mcp_tools_cache = hist.pre.cache
                      /\ cache_timestamp = hist.pre.ts
     /\ mcp_tools_cache # hist.pre.cache
          => /\ ~mcp_tools_cache.none
             /\ DOMAIN mcp_tools_cache.map # {}
             /\ Value(mcp_tools_cache.map) = hist.fresh

C7_Witness ==
  /\ pc = "returned" /\ via = "refresh"
  /\ PreCacheNonEmpty /\ FreshEmpty
  /\ hist.exhausted # {}

\* C8: when a non-empty cache exists and the refresh reaches no provider, so
\* that its filtered result is empty, get_tools returns the cached mapping.
C8_StaleCacheReturned ==
  (pc = "returned" /\ via = "refresh" /\ PreCacheNonEmpty /\ FreshEmpty
     /\ hist.connected = {})
  => ret = Value(hist.pre.cache.map)

\* C9: a get_tools call whose refresh is cut off by the global timeout, or
\* goes on for more than those 15 time-units, returns the cache it found, or
\* an empty mapping if there was none, and leaves the cache and its
\* timestamp as they were.
ExceedsGlobalTimeout ==
  \/ via = "timeout"
  \/ via = "refresh" /\ now - current_time > GLOBAL_TIMEOUT

C9_TimeoutFallsBack ==
  (pc = "returned" /\ ExceedsGlobalTimeout) =>
     /\ ret = IF PreHadCache THEN Value(hist.pre.cache.map)
                             ELSE Value(EmptyDict)
     /\ mcp_tools_cache = hist.pre.cache
     /\ cache_timestamp = hist.pre.ts

\* C10: get_tools hands a mapping to its caller however it ends: from the
\* cache, after a refresh, or after a cancelled refresh, with or without a
\* cache.
C10_AlwaysAMapping ==
  /\ pc \in {"fetched", "returned"}
       => /\ ret.kind = "value"
          /\ via \in {"cache", "refresh", "timeout"}
  /\ pc \notin {"fetched", "returned"} => ret = NoRet

C10_Witness ==
  /\ pc = "returned" /\ via = "timeout"
  /\ caller = "status"
  /\ hist.pre.cache.none
  /\ cache_timestamp # None
  /\ ret = Value(EmptyDict)

\* C11: a call that finds a cache younger than 300 time-units while no
\* provider has its last failure after its last success returns the cached
\* mapping from the cache, starts no connection attempt and queries no
\* breaker, and leaves cache, timestamp, health table and breaker table as
\* they were before the call.
C11_FastPathFrame ==
  (/\ pc = "returned"
   /\ PreHadCache
   /\ hist.pre.ts # None
   /\ current_time - hist.pre.ts < 300
   /\ \A s \in DOMAIN hist.pre.health :
         \/ hist.pre.health[s].last_failure = None
         \/ /\ hist.pre.health[s].last_success # None
            /\ hist.pre.health[s].last_failure
                 <= hist.pre.health[s].last_success)
  => /\ via = "cache"
     /\ ret = Value(hist.pre.cache.map)
     /\ \A s \in ServerNames : hist.started[s] = 0
     /\ hist.queried = EmptyDict
     /\ hist.skipped = {}
     /\ mcp_tools_cache = hist.pre.cache
     /\ cache_timestamp = hist.pre.ts
     /\ connection_health = hist.pre.health
     /\ circuit_breaker = hist.pre.breaker

C11_Witness ==
  /\ pc = "returned" /\ via = "cache"
  /\ caller = "get_tools"
  /\ PreHadCache
  /\ DOMAIN hist.pre.cache.map = {}
  /\ ServerNames \subseteq DOMAIN hist.pre.health
  /\ now > hist.pre.ts

\* C18: when get_tools returns after a refresh (completed or cancelled),
\* every configured provider was either given a connection attempt or
\* skipped by its breaker during the call.
C18_AllProvidersReached ==
  (pc = "returned" /\ via \in {"refresh", "timeout"}) =>
     \A s \in ServerNames : s \in hist.skipped \/ hist.started[s] >= 1

\* C19: a connector invocation starts at most 3 attempts; the delays slept
\* are 1 before attempt 2 and 2 before attempt 3, one delay per attempt
\* after the first and none before the first; after a successful attempt no
\* further attempt is started.
C19_BoundedBackoff ==
  \A s \in ServerNames :
     /\ hist.started[s] <= 3
     /\ Len(hist.slept[s]) <= 2
     /\ \A k \in 1..Len(hist.slept[s]) : hist.slept[s][k] = <<1, 2>>[k]
     /\ hist.started[s] >= 1 => Len(hist.slept[s]) = hist.started[s] - 1
     /\ hist.started[s] = 0 => hist.slept[s] = <<>>
     /\ s \in hist.connected => hist.started[s] = hist.okAt[s]

C19_Witness ==
  \E s \in hist.exhausted :
     /\ hist.started[s] = 3
     /\ hist.slept[s] = <<1, 2>>

\* C20: a provider whose connection succeeded on attempt 2 or 3 has, from
\* then to the end of the call, success_count one above its value before
\* the call, failure_count at its value before the call, and no breaker
\* record; the connector reported success (the refresh records no failure).
C20_OnlyFinalOutcome ==
  \A s \in hist.connected :
     hist.okAt[s] >= 2
     => /\ SuccessCount(connection_health, s)
             = SuccessCount(hist.pre.health, s) + 1
        /\ connection_health[s].failure_count = PreFailureCount(s)
        /\ s \notin DOMAIN circuit_breaker
        /\ s \notin hist.exhausted
        /\ hist.connFails[s] = 0

C20_Witness ==
  /\ pc = "returned"
  /\ \E s \in hist.connected :
        /\ hist.okAt[s] = 3
        /\ s \in DOMAIN hist.pre.breaker
        /\ hist.pre.breaker[s].failure_count >= 1
        /\ s \notin DOMAIN circuit_breaker

\* number of times event e is in the operation's log
Count(log, e) == Cardinality({i \in DOMAIN log : log[i] = e})
Events(log) == {log[i] : i \in DOMAIN log}

\* C12: post_tweet that finds its tool absent on every lookup has fetched
\* the registry exactly twice, has set the cache to None exactly once, after
\* the first lookup and before the second fetch (the cache is None while it
\* sleeps, so the second fetch is not served from the cache), has invoked no
\* tool, and returns status "failed" with the "unavailable after retries"
\* error.
C12_PostAbsentTwice ==
  /\ (pc = "returned" /\ caller = "post_tweet" /\ "present" \notin Events(hist.log))
     => /\ hist.log = <<"fetch", "absent", "invalidate", "fetch", "absent">>
        /\ via # "cache"
        /\ result.status = "failed"
        /\ result.error = "unavailable after retries"
  /\ (pc = "op_sleep" /\ caller = "post_tweet")
     => /\ mcp_tools_cache = NoCache
        /\ hist.log = <<"fetch", "absent", "invalidate">>

C12_Witness ==
  /\ pc = "returned" /\ caller = "post_tweet"
  /\ Count(hist.log, "fetch") = 2
  /\ Count(hist.log, "invalidate") = 1
  /\ Count(hist.log, "invoke") = 0
  /\ result = post_fallback
  /\ hist.connected # {}

\* C13: when post_tweet's tool is present and its first invocation raises a
\* fault, post_tweet has set the cache to None and invoked the tool a second
\* time before it returns; when the second invocation returned a value, that
\* value is post_tweet's result.
C13_PostRetriesAfterFault ==
  (pc = "returned" /\ caller = "post_tweet" /\ "fault" \in Events(hist.log))
  => /\ Count(hist.log, "invalidate") = 1
     /\ Count(hist.log, "invoke") = 2
     /\ hist.log[Len(hist.log)] = "ok" => result \in ToolResults

\* C14 (as stated): delete_tweet, like_tweet and retweet that find their tool
\* absent, or whose invocation raises, have set the cache to None and fetched
\* the registry a second time before they return.
C14_WriteOpsRetry ==
  (/\ pc = "returned"
   /\ caller \in {"delete_tweet", "like_tweet", "retweet"}
   /\ Events(hist.log) \cap {"absent", "fault", "timeout_fault"} # {})
  => /\ Count(hist.log, "invalidate") = 1
     /\ Count(hist.log, "fetch") = 2

\* C14 (amended): delete_tweet, like_tweet and retweet do not retry: they
\* fetch the registry once, never set the cache to None, invoke their tool at
\* most once, and when the tool is absent or its invocation raises they
\* return a structured failure with status "failed".
C14_WriteOpsSingleShot ==
  (pc = "returned" /\ caller \in {"delete_tweet", "like_tweet", "retweet"})
  => /\ Count(hist.log, "fetch") = 1
     /\ Count(hist.log, "invalidate") = 0
     /\ Count(hist.log, "invoke") <= 1
     /\ op_attempt = 0
     /\ Events(hist.log) \cap {"absent", "fault", "timeout_fault"} # {}
          => result.status = "failed"
     /\ hist.log[Len(hist.log)] = "ok" => result \in ToolResults

C14_Witness ==
  /\ pc = "returned"
  /\ caller = "retweet"
  /\ hist.log = <<"fetch", "present", "invoke", "fault">>
  /\ result.status = "failed"
  /\ ~mcp_tools_cache.none

\* C15: no operation ends by raising; a read operation that finds its tool
\* absent returns status "failed" after a single fetch.
C15_NeverRaises ==
  pc = "returned" =>
     /\ result.status # "raised"
     /\ (caller \in ReadOps /\ "absent" \in Events(hist.log))
          => /\ result.status = "failed"
             /\ Count(hist.log, "fetch") = 1

\* C16: whatever the wrapped call does, the guard hands back a result and
\* raises nothing: status "timeout" for a call that does not complete within
\* 30 time-units, status "error" with the fault's message for a call that
\* raises a fault, and the call's own result, unchanged, otherwise.
C16_GuardTotal ==
  hist.guardIn.kind # "none" =>
     /\ hist.guardOut.status # "raised"
     /\ hist.guardIn.kind = "hang" => hist.guardOut.status = "timeout"
     /\ hist.guardIn.kind = "fault"
          => /\ hist.guardOut.status = "error"
             /\ hist.guardOut.error[Len(hist.guardOut.error)] = hist.guardIn.value
     /\ hist.guardIn.kind = "ok" => hist.guardOut = hist.guardIn.value
     /\ pc = "returned" => result = hist.guardOut

C16_Witness ==
  /\ pc = "returned"
  /\ caller = "advanced_search_twitter"
  /\ hist.guardIn.kind = "hang"
  /\ hist.guardOut.status = "timeout"
  /\ now >= StartTime + TOOL_EXECUTION_TIMEOUT

\* C17: an operation that is waiting for a tool invocation does not wait
\* forever: the invocation ends, by itself or by the 30-unit timeout.
C17_InvocationsEnd == (pc = "invoke") ~> (pc # "invoke")

\* the 10 names the operations depend on, as the specification lists them
TenNames ==
  {"post_tweet", "delete_tweet", "like_tweet", "retweet",
   "advanced_search_twitter", "get_trends", "get_tweets_by_IDs",
   "get_tweet_replies", "get_tweet_quotations", "get_tweet_thread_context"}

\* C21: the keys of the cache, and the keys of the mapping get_tools hands
\* to its caller, are among the 10 required names in every state, whatever
\* names the providers enumerate.
C21_OnlyRequiredNames ==
  /\ ~mcp_tools_cache.none => DOMAIN mcp_tools_cache.map \subseteq TenNames
  /\ ret.kind = "value" => DOMAIN ret.map \subseteq TenNames
  /\ hist.fresh.kind = "value" => DOMAIN hist.fresh.map \subseteq TenNames

C21_Witness ==
  /\ pc = "returned" /\ via = "refresh"
  /\ \E s \in hist.connected : "search_x" \in hist.offered[s]
  /\ ~mcp_tools_cache.none
  /\ DOMAIN mcp_tools_cache.map = {"post_tweet"}
  /\ ret = Value(mcp_tools_cache.map)

\* the provider processed last among those that enumerated name n
LastOffering(n) ==
  servers[CHOOSE i \in 1..Len(servers) :
            /\ n \in hist.offered[servers[i]]
            /\ \A j \in (i + 1)..Len(servers) : n \notin hist.offered[servers[j]]]

\* C22: in the result of a completed refresh every tool has the handle of
\* the provider that enumerated it last in the configured order, and every
\* required name some provider enumerated is in the result.
C22_LastWriteWins ==
  (pc = "returned" /\ via = "refresh") =>
     /\ \A n \in DOMAIN hist.fresh.map : hist.fresh.map[n] = LastOffering(n)
     /\ \A s \in ServerNames :
           (hist.offered[s] \cap TenNames) \subseteq DOMAIN hist.fresh.map
     /\ ret = hist.fresh

C22_Witness ==
  /\ pc = "returned" /\ via = "refresh"
  /\ "post_tweet" \in hist.offered["twitter"] \cap hist.offered["remote_server"]
  /\ ret.map["post_tweet"] = "remote_server"
  /\ mcp_tools_cache = Cached(ret.map)

Counter(health, s, f) == IF s \in DOMAIN health THEN health[s][f] ELSE 0

\* C23: no step lowers a provider's success_count or failure_count, and no
\* step removes a provider's health record.
C23_CountersMonotone ==
  [][\A s \in DOMAIN connection_health :
       /\ s \in DOMAIN connection_health'
       /\ connection_health'[s].success_count
            >= connection_health[s].success_count
       /\ connection_health'[s].failure_count
            >= connection_health[s].failure_count]_vars

C23_Witness ==
  /\ pc = "returned"
  /\ \E s \in DOMAIN hist.pre.health :
        /\ hist.pre.health[s].failure_count >= 2
        /\ hist.pre.health[s].success_count >= 1
        /\ Counter(connection_health, s, "failure_count")
             > hist.pre.health[s].failure_count

\* C24: a breaker record whose is_open flag is set has a consecutive
\* failure count of at least 3.
C24_OpenOnlyAtThreshold ==
  \A s \in DOMAIN circuit_breaker :
     circuit_breaker[s].is_open => circuit_breaker[s].failure_count >= 3

C24_Witness ==
  \E s \in DOMAIN circuit_breaker :
     /\ circuit_breaker[s].is_open
     /\ circuit_breaker[s].failure_count = 3

\* C25: check_twitter_connection_status ends with status healthy, degraded
\* or error and never by raising; when no provider could be connected during
\* its refresh it reports degraded with zero tools; it reports error only
\* when get_tools raised.
C25_StatusAlwaysAnswers ==
  (pc = "returned" /\ caller = "status") =>
     /\ result.status \in {"healthy", "degraded", "error"}
     /\ hist.connected = {}
          => /\ result.status = "degraded"
             /\ result.total_tools = 0
     /\ result.status = "error" => ret.kind = "raised"
     /\ result.status = "healthy" => hist.connected # {}

C25_Witness ==
  /\ pc = "returned" /\ caller = "status"
  /\ hist.exhausted \cup hist.skipped = ServerNames
  /\ hist.skipped # {}
  /\ cache_timestamp # None
  /\ result.status = "degraded"
  /\ result.total_tools = 0

PreRecentFailure ==
  /\ ~hist.pre.none
  /\ \E s \in DOMAIN hist.pre.health :
        /\ hist.pre.health[s].last_failure # None
        /\ \/ hist.pre.health[s].last_success = None
           \/ hist.pre.health[s].last_failure > hist.pre.health[s].last_success

\* C29: a get_tools call that finds some provider with its last failure
\* after its last success does not answer from the cache, whatever the
\* cache's age: before it returns the connector has been invoked for every
\* configured provider (a breaker query, then attempts unless skipped).
C29_RefreshAfterFailure ==
  (pc = "returned" /\ PreRecentFailure) =>
     /\ via # "cache"
     /\ \A s \in ServerNames : s \in DOMAIN hist.queried

\* C30: post_tweet invokes its tool at most once per call, however the
\* lookups and the invocation end.
C30_PostInvokesOnce ==
  caller = "post_tweet" => Count(hist.log, "invoke") <= 1

C30_Witness ==
  /\ pc = "returned" /\ caller = "post_tweet"
  /\ hist.log = <<"fetch", "absent", "invalidate", "fetch", "present",
                  "invoke", "fault">>
  /\ result.status = "error"

\* C26: with two tasks refreshing concurrently, the cache is at every moment
\* either absent or equal to the complete filtered result of one refresh.
C26_CacheIsOneRefresh ==
  ~mcp_tools_cache.none => mcp_tools_cache.map \in hist.results

C26_Witness ==
  /\ Cardinality(hist.results) >= 2
  /\ ~mcp_tools_cache.none
  /\ DOMAIN mcp_tools_cache.map = {"retweet"}
  /\ \E k \in Tasks : tasks[k].pc = "connect" /\ DOMAIN tasks[k].tools # {}

\* C27: no connection attempt to a provider is started while that
\* provider's breaker is open, under any interleaving of the two tasks.
C27_BreakerGatesAttempts == hist.ungated = {}

\* C28: the provider-health table handed to a caller by
\* check_twitter_connection_status is a copy: whatever is recorded after the
\* result was returned, the caller still reads in it the values of the
\* moment of the return.
C28_SnapshotIsCopy ==
  ~hist.snap.none =>
    snapshot_health(hist.snap.health, connection_health) = hist.snap.health

\* C34: through the Twitter operations, a provider has a breaker record only
\* while the outcome recorded last for it is a failure: no success has been
\* recorded for it since the record was created.
C34_BreakerOnlyAfterFailure ==
  \A s \in DOMAIN circuit_breaker : hist.lastFail[s] # None

C34_Witness ==
  /\ caller \in FacadeOps
  /\ \E s \in DOMAIN circuit_breaker :
        /\ connection_health[s].success_count >= 1
        /\ connection_health[s].last_failure >= connection_health[s].last_success
  /\ \E s \in ServerNames \ DOMAIN circuit_breaker :
        /\ s \in DOMAIN connection_health
        /\ connection_health[s].failure_count >= 1
        /\ hist.lastFail[s] = None

\* C35: in every health record, last_success is set exactly when
\* success_count is positive, and last_failure is set exactly when
\* failure_count is positive.
C35_StampsMatchCounts ==
  \A s \in DOMAIN connection_health :
     /\ connection_health[s].last_success # None
          <=> connection_health[s].success_count > 0
     /\ connection_health[s].last_failure # None
          <=> connection_health[s].failure_count > 0

C35_Witness ==
  /\ \E s \in DOMAIN connection_health :
        /\ connection_health[s].success_count > 0
        /\ connection_health[s].failure_count > 0
  /\ \E s \in DOMAIN connection_health :
        /\ connection_health[s].success_count = 0
        /\ connection_health[s].failure_count = 0

\* C36: with two tasks refreshing concurrently, the cache's fetch timestamp
\* never decreases: a refresh begun earlier does not overwrite what a
\* refresh begun later has stored.
C36_TimestampMonotone ==
  [][cache_timestamp # None => cache_timestamp' >= cache_timestamp]_vars

\* C37: a status query during which no provider can be connected loses no
\* cached tool: every tool in the cache when
\* check_twitter_connection_status was called is in the cache when it
\* returns.
C37_StatusKeepsCache ==
  (/\ pc = "returned" /\ caller = "status"
   /\ hist.connected = {}
   /\ ~hist.dropped.none)
    => \A n \in DOMAIN hist.dropped.map :
          /\ ~mcp_tools_cache.none
          /\ n \in DOMAIN mcp_tools_cache.map

MetricFailures(m, s) == IF s \in DOMAIN m THEN m[s].failures ELSE 0

\* C38: whenever the connector's last attempt on a provider fails and the
\* failure is recorded in the health table, monitoring counts one more
\* failed connection for that provider, whatever the kind of the fault.
C38_FinalFailuresMonitored ==
  [][(/\ pc = "connect"
      /\ should_record_failure(attempt)
      /\ Counter(connection_health', servers[srv], "failure_count")
           > Counter(connection_health, servers[srv], "failure_count"))
       => MetricFailures(metrics', servers[srv])
            = MetricFailures(metrics, servers[srv]) + 1]_vars

\* C31: as long as no connection attempt to the first provider has ever
\* been answered, however many times get_tools was called, no failure is
\* recorded for it and it has no open breaker.
C31_HangsLeaveNoFailure ==
  servers[1] \notin hist.answered =>
     /\ Counter(connection_health, servers[1], "failure_count") = 0
     /\ ~FlagOpen(circuit_breaker, servers[1])

C31_Witness ==
  /\ servers[1] \notin hist.answered
  /\ pc = "returned" /\ via = "timeout"
  /\ now >= StartTime + 3 * GLOBAL_TIMEOUT

\* no clock reading is stored anywhere: no cache was stored, no success and
\* no failure was recorded
Unstamped ==
  /\ cache_timestamp = None
  /\ circuit_breaker = EmptyDict
  /\ \A s \in DOMAIN connection_health :
        /\ connection_health[s].last_success = None
        /\ connection_health[s].last_failure = None

\* the call that has returned left cache, timestamp, health table and
\* breaker table as it found them, and none of them holds a clock reading:
\* called again, at whatever time, get_tools is where it was before this
\* call
LeftAsFound ==
  /\ ~hist.pre.none
  /\ mcp_tools_cache = hist.pre.cache
  /\ cache_timestamp = hist.pre.ts
  /\ connection_health = hist.pre.health
  /\ circuit_breaker = hist.pre.breaker
  /\ Unstamped

\* C32: whatever the first provider does, a tool the second provider offers
\* at every attempt is eventually in a result of get_tools when it is called
\* again and again. The clock only moves forward, so no state is ever
\* visited twice; a behaviour in which the tool never comes shows as a call
\* that ends without it and leaves the program as it found it, whereupon the
\* first provider can do the same again in every later call. There is no
\* such call: a call that returns without the tool has changed what a later
\* call reads.
C32_SecondProviderServes ==
  (pc = "returned" /\ ~(SecondOffer \subseteq DOMAIN ret.map)) => ~LeftAsFound

\* C33: when get_tools answers from the cache through the fast path, every
\* required tool that a provider enumerated in its most recent recorded
\* successful connection is in the mapping served.
C33_FastPathServesLastSuccess ==
  (pc = "returned" /\ via = "cache") =>
     \A s \in ServerNames :
        (hist.lastOffer[s] \cap required_tools) \subseteq DOMAIN ret.map

====
